---- MODULE Spec2Model ----
(***************************************************************************)
(* A model of subir: Uploader.upload_data_frame (subir/upload.py) and the  *)
(* tagging upload Tagger.apply_tags / upload_tags (subir/tag.py).          *)
(*                                                                         *)
(* Tables are sequences of rows, rows are records of strings.  The SQL     *)
(* NULL (a pandas NaN / Python None on the frame side) is the value NULL.  *)
(* Every warehouse call may raise: each step has a failing alternative.    *)
(***************************************************************************)
EXTENDS Integers, Sequences, FiniteSets, TLC

VARIABLES
  args,       \* the arguments of the call under way
  pc,         \* the position in the function body
  log,        \* the warehouse calls made so far, in order, and the answers to prompts
  connected,  \* layer.connection is open
  staging,    \* the staging table: NoTable, or its rows
  target,     \* the target table's rows
  before,     \* the target's rows when the call started
  strategy,   \* the class of combine_query that was built ("none" before)
  pending,    \* an exception is in flight inside the try block
  raised,     \* the call ended by raising
  frame,      \* apply_tags: the row frame df
  restore,    \* the restore table: NoTable, or its rows
  restoreBefore, \* the restore table when the call started
  result,     \* apply_tags: the value returned (-1 while running)
  count,      \* upload_tags: the value read by count_query
  resolution, \* drop_duplicates: the resolution chosen
  run,        \* which run of the same tagging upload this is
  firstTarget \* the target's rows after the first run

vars == <<args, pc, log, connected, staging, target, before, strategy, pending,
          raised, frame, restore, restoreBefore, result, count, resolution, run,
          firstTarget>>

tagVars == <<frame, restore, restoreBefore, result, count, resolution, run, firstTarget>>

----------------------------------------------------------------------------
(* Bounds *)

MaxFrameRows == 2
MaxTargetRows == 2
MaxCsvRows == 3
MaxNameLen == 3
MaxColumnValues == 2
MaxCsvLines == 2

----------------------------------------------------------------------------
(* Values and tables *)

NULL == "NULL"
\* The value of a table that does not exist: a table no statement can produce.
NoTable == <<[no_table |-> TRUE]>>

Range(s) == {s[i] : i \in DOMAIN s}

SeqsUpTo(S, n) == UNION {[1..k -> S] : k \in 0..n}

\* The number of rows of table s that equal r.
Copies(s, r) == Cardinality({i \in DOMAIN s : s[i] = r})

\* Two tables hold the same rows, whatever their order.
SameRows(s, t) ==
  /\ Len(s) = Len(t)
  /\ \A r \in Range(s) \cup Range(t) : Copies(s, r) = Copies(t, r)

----------------------------------------------------------------------------
(* Uploader.upload_data_frame *)

TableColumns == <<"id", "a", "b">>

FrameColumnChoices == {<<"id", "a", "b">>, <<"id", "a">>}

MergeColumnChoices == {<<>>, <<"id">>, <<"id", "a">>}

FrameRowChoices ==
  {[id |-> "1", a |-> "p", b |-> "p"], [id |-> "1", a |-> "q", b |-> "p"],
   [id |-> "2", a |-> "p", b |-> "p"], [id |-> NULL, a |-> "p", b |-> "p"]}

TargetRowChoices == {[id |-> i, a |-> "r", b |-> "s"] : i \in {"1", NULL}}

\* A value of the frame as layer.insert_data_frame stores it: a missing value
\* is written as an empty field, which is loaded as NULL only when
\* empty_as_null is requested.
Stored(v, empty_as_null) ==
  IF v = NULL /\ ~empty_as_null THEN "" ELSE v

\* layer.insert_data_frame into the staging table, which is created like the
\* target: a column the frame lacks takes its default, NULL.
StagingRows(columns, rows, empty_as_null) ==
  [i \in DOMAIN rows |->
     [c \in Range(TableColumns) |->
        IF c \in Range(columns) THEN Stored(rows[i][c], empty_as_null) ELSE NULL]]

\* The join condition of a merge: SQL equality on every join column; a NULL
\* on either side is never equal.
Matches(t, s, join_columns) ==
  \A c \in Range(join_columns) : t[c] # NULL /\ s[c] # NULL /\ t[c] = s[c]

HasMatchIn(r, table, join_columns) ==
  \E i \in DOMAIN table : Matches(r, table[i], join_columns)

\* update_columns of upload_data_frame: the frame's columns that are no join column.
UpdateColumnsInverted(columns, merge_column_names) ==
  SelectSeq(columns, LAMBDA c : c \in Range(merge_column_names))

UpdateColumns(columns, merge_column_names) ==
  SelectSeq(columns, LAMBDA c : c \notin Range(merge_column_names))

\* One target row after the update of a merge, from the source row s.
Updated(t, s, update_columns) ==
  [c \in DOMAIN t |-> IF c \in Range(update_columns) THEN s[c] ELSE t[c]]

\* SQL.MergeQuery: update the target rows that match a source row, insert the
\* source rows that match no target row.  A target row matched by several
\* source rows is updated from any one of them.
MergeResults(tgt, src, join_columns, update_columns) ==
  LET choices == {m \in [DOMAIN tgt -> 0..Len(src)] :
                    \A i \in DOMAIN tgt :
                      IF HasMatchIn(tgt[i], src, join_columns)
                      THEN m[i] # 0 /\ Matches(tgt[i], src[m[i]], join_columns)
                      ELSE m[i] = 0}
      inserted == SelectSeq(src, LAMBDA s : ~HasMatchIn(s, tgt, join_columns))
  IN {[i \in DOMAIN tgt |->
         IF m[i] = 0 THEN tgt[i] ELSE Updated(tgt[i], src[m[i]], update_columns)]
      \o inserted : m \in choices}

\* SQL.MergeReplaceQuery: a merge over all columns that also deletes the
\* target rows whose join key has no counterpart in the source.
MergeReplaceResults(tgt, src, join_columns) ==
  LET kept == SelectSeq(tgt, LAMBDA t : HasMatchIn(t, src, join_columns))
  IN MergeResults(kept, src, join_columns, TableColumns)

\* The if / elif chain that builds combine_query.
CombineStrategyMergeFirst(replace, merge_replace, merge_column_names) ==
  IF replace THEN "Replace"
  ELSE IF merge_column_names # <<>> THEN "Merge"
  ELSE IF merge_replace THEN "MergeReplace"
  ELSE "Append"

CombineStrategyNoMergeReplace(replace, merge_replace, merge_column_names) ==
  IF replace THEN "Replace"
  ELSE IF merge_column_names # <<>> THEN "Merge"
  ELSE "Append"

CombineStrategy(replace, merge_replace, merge_column_names) ==
  IF replace THEN "Replace"
  ELSE IF merge_replace THEN "MergeReplace"
  ELSE IF merge_column_names # <<>> THEN "Merge"
  ELSE "Append"

\* The table names a caller passes: one that is its own sanitized form and
\* one that is not.
TableNameChoices == {<<"t">>, <<"t", ";">>}

UploadArgs ==
  [table_name : TableNameChoices,
   replace : BOOLEAN, merge_replace : BOOLEAN, empty_as_null : BOOLEAN,
   merge_column_names : MergeColumnChoices,
   columns : FrameColumnChoices,
   rows : SeqsUpTo(FrameRowChoices, MaxFrameRows)]

InitUpload ==
  /\ args \in UploadArgs
  /\ target \in SeqsUpTo(TargetRowChoices, MaxTargetRows)
  /\ before = target
  /\ pc = "connect"
  /\ log = <<>>
  /\ connected = FALSE
  /\ staging = NoTable
  /\ strategy = "none"
  /\ pending = FALSE
  /\ raised = FALSE
  /\ frame = <<>>
  /\ restore = NoTable
  /\ restoreBefore = NoTable
  /\ result = -1
  /\ count = 0
  /\ resolution = "none"
  /\ run = 1
  /\ firstTarget = <<>>

\* A warehouse call and whether it ran without raising.
Call(name, ok) == log' = Append(log, [call |-> name, ok |-> ok])

\* The call ran: control passes to the next statement.
Proceed(next) ==
  /\ pc' = next
  /\ UNCHANGED <<pending, raised>>

\* The call raised outside the try block: the exception leaves the function.
RaiseOutside ==
  /\ pc' = "done"
  /\ raised' = TRUE
  /\ UNCHANGED pending

\* The call raised inside try ... finally: the finally block runs with the
\* exception in flight.
RaiseInTryNoFinally ==
  /\ pc' = "done"
  /\ raised' = TRUE
  /\ pending' = TRUE

RaiseInTry ==
  /\ pc' = "finally"
  /\ pending' = TRUE
  /\ UNCHANGED raised

\* The call raised inside the finally block: the exception leaves the
\* function, in place of the one in flight if there is one.
SwallowInFinally == Proceed("disconnect")

RaiseInFinally == RaiseOutside

\* layer.connect(); layer.connection.autocommit = True
Connect ==
  /\ pc = "connect"
  /\ \/ /\ Call("connect", TRUE)
        /\ connected' = TRUE
        /\ Proceed("prepare")
     \/ /\ Call("connect", FALSE)
        /\ RaiseOutside
        /\ UNCHANGED connected
  /\ UNCHANGED <<args, staging, target, before, strategy, tagVars>>

\* prepare_upload_query.run(sql_layer=layer)
PrepareUpload ==
  /\ pc = "prepare"
  /\ \/ /\ Call("prepare", TRUE)
        /\ staging' = <<>>
        /\ Proceed("insert")
     \/ /\ Call("prepare", FALSE)
        /\ RaiseOutside
        /\ UNCHANGED staging
  /\ UNCHANGED <<args, connected, target, before, strategy, tagVars>>

\* layer.insert_data_frame(...), the first statement of the try block
InsertDataFrame ==
  /\ pc = "insert"
  /\ \/ /\ Call("insert", TRUE)
        /\ staging' = StagingRows(args.columns, args.rows, args.empty_as_null)
        /\ Proceed("combine")
     \/ /\ Call("insert", FALSE)
        /\ RaiseInTry
        /\ UNCHANGED staging
  /\ UNCHANGED <<args, connected, target, before, strategy, tagVars>>

\* combine_query = <name>(...); combine_query.run(sql_layer=layer)
Combine(name) ==
  /\ pc = "combine"
  /\ CombineStrategy(args.replace, args.merge_replace, args.merge_column_names) = name
  /\ strategy' = name
  /\ UNCHANGED <<args, connected, staging, before, tagVars>>

\* The statements of one query text and whether each ran, then the run of
\* the text as a whole.
Statements(name, ok, combined) ==
  log' = log \o <<[call |-> name, ok |-> ok], [call |-> "combine", ok |-> combined]>>

\* The target after both statements of ReplaceUploadQuery: truncate table,
\* then insert into the target select * from the staging table.
ReplaceRowsNoTruncate(tgt, stg) == tgt \o stg

ReplaceRows(tgt, stg) == <<>> \o stg

\* ReplaceUploadQuery: truncate, then the append statement.  The connection
\* commits each statement: the append may fail after the truncate.
CombineReplace ==
  /\ Combine("Replace")
  /\ \/ /\ Statements("truncate", TRUE, TRUE)
        /\ target' = ReplaceRows(target, staging)
        /\ Proceed("finally")
     \/ /\ Statements("truncate", TRUE, FALSE)
        /\ target' = <<>>
        /\ RaiseInTry
     \/ /\ Statements("truncate", FALSE, FALSE)
        /\ RaiseInTry
        /\ UNCHANGED target

\* MergeReplaceUploadQuery
CombineMergeReplace ==
  /\ Combine("MergeReplace")
  /\ \/ /\ Call("combine", TRUE)
        /\ target' \in MergeReplaceResults(target, staging, args.merge_column_names)
        /\ Proceed("finally")
     \/ /\ Call("combine", FALSE)
        /\ RaiseInTry
        /\ UNCHANGED target

\* MergeUploadQuery
CombineMerge ==
  /\ Combine("Merge")
  /\ \/ /\ Call("combine", TRUE)
        /\ target' \in MergeResults(target, staging, args.merge_column_names,
                                    UpdateColumns(args.columns, args.merge_column_names))
        /\ Proceed("finally")
     \/ /\ Call("combine", FALSE)
        /\ RaiseInTry
        /\ UNCHANGED target

\* AppendUploadQuery
CombineAppend ==
  /\ Combine("Append")
  /\ \/ /\ Call("combine", TRUE)
        /\ target' = target \o staging
        /\ Proceed("finally")
     \/ /\ Call("combine", FALSE)
        /\ RaiseInTry
        /\ UNCHANGED target

\* finally: drop_upload_query.run(sql_layer=layer)
DropUpload ==
  /\ pc = "finally"
  /\ \/ /\ Call("drop", TRUE)
        /\ staging' = NoTable
        /\ Proceed("disconnect")
     \/ /\ Call("drop", FALSE)
        /\ RaiseInFinally
        /\ UNCHANGED staging
  /\ UNCHANGED <<args, connected, target, before, strategy, tagVars>>

\* finally: layer.disconnect(); then the exception in flight, if any, leaves.
Disconnect ==
  /\ pc = "disconnect"
  /\ Call("disconnect", TRUE)
  /\ connected' = FALSE
  /\ pc' = "done"
  /\ raised' = pending
  /\ UNCHANGED <<args, staging, target, before, strategy, pending, tagVars>>

NextUpload ==
  \/ Connect
  \/ PrepareUpload
  \/ InsertDataFrame
  \/ CombineReplace
  \/ CombineMergeReplace
  \/ CombineMerge
  \/ CombineAppend
  \/ DropUpload
  \/ Disconnect

SpecUpload == InitUpload /\ [][NextUpload]_vars

----------------------------------------------------------------------------
(* Tagger.apply_tags, drop_duplicates and upload_tags *)

\* EntityType
EntityType == {"ad", "adset", "campaign"}

\* EntityType.identifier_columns: channel and <entity>_id
identifier_columns == <<"channel", "id">>

\* EntityType.tag_column_names: <entity>_tag and <entity>_subtag
tag_column_names == <<"tag", "subtag">>

\* EntityType.update_column_names
update_column_names == tag_column_names \o <<"upload_group">>

\* The rows of a CSV file as pd.read_csv(dtype='object') reads them: text, or
\* NULL for an empty field.
CsvRowChoices ==
  {[company |-> "co", app |-> "app", channel |-> "fb", id |-> "1", tag |-> "A", subtag |-> ""],
   [company |-> "co", app |-> "app", channel |-> "fb", id |-> "1", tag |-> " B", subtag |-> "x"],
   [company |-> "co", app |-> "app", channel |-> NULL, id |-> "1", tag |-> NULL, subtag |-> " "],
   [company |-> "co", app |-> "app", channel |-> "fb", id |-> "null", tag |-> "A", subtag |-> ""]}

\* The rows a tag table may hold before the upload.
TagRow(id, tag, subtag) ==
  [company_identifier |-> "co", app |-> "old", channel |-> "fb", id |-> id,
   tag |-> tag, subtag |-> subtag, upload_group |-> "old.csv"]

OldRestore == <<TagRow("#9", "Z", NULL)>>

\* The target table and the restore table before the upload.
TagTableChoices ==
  {<<<<>>, NoTable>>,
   <<<<>>, OldRestore>>,
   <<<<TagRow("#1", "C", "")>>, NoTable>>,
   <<<<TagRow("#2", "", NULL)>>, OldRestore>>,
   <<<<TagRow("#1", NULL, "y"), TagRow("#3", NULL, "")>>, NoTable>>}

\* df.rename(columns={'company': 'company_identifier'}) and
\* pd.DataFrame(df, columns=list(entity.columns.keys()))
Project(csv) ==
  [i \in DOMAIN csv |->
     [company_identifier |-> csv[i].company, app |-> csv[i].app,
      channel |-> csv[i].channel, id |-> csv[i].id,
      tag |-> csv[i].tag, subtag |-> csv[i].subtag]]

\* json.loads on the id texts of the CSV: a number decodes to that number,
\* written with a leading #, and null to None.
JsonLoads(text) ==
  CASE text = "1" -> "#1"
    [] text = "null" -> NULL

\* convert_id_columns: decode the id of every row, drop the rows whose id is
\* missing or decodes to None.
convert_id_columns(df) ==
  LET decoded == [i \in DOMAIN df |->
                    [df[i] EXCEPT !.id = IF df[i].id = NULL THEN NULL
                                         ELSE JsonLoads(df[i].id)]]
  IN SelectSeq(decoded, LAMBDA r : r.id # NULL)

\* str.strip on the tag texts of the CSV.
Strip(text) ==
  CASE text = " " -> ""
    [] text = " B" -> "B"
    [] OTHER -> text

\* strip_empty_tags: fillna('') and strip on the tag columns.
strip_empty_tags(df) ==
  [i \in DOMAIN df |->
     [df[i] EXCEPT !.tag = Strip(IF df[i].tag = NULL THEN "" ELSE df[i].tag),
                   !.subtag = Strip(IF df[i].subtag = NULL THEN "" ELSE df[i].subtag)]]

\* The values of a row in the columns of subset.
Key(r, subset) == [c \in Range(subset) |-> r[c]]

\* DataFrame.drop_duplicates(subset, keep): of the rows with equal values in
\* subset keep the first, the last, or none (keep=False).  Missing values
\* compare equal.
DropDuplicates(df, subset, keep) ==
  LET same(i, j) == Key(df[i], subset) = Key(df[j], subset)
      kept == {i \in DOMAIN df :
                 \A j \in DOMAIN df :
                   CASE keep = "first" -> (j < i) => ~same(i, j)
                     [] keep = "last" -> (j > i) => ~same(i, j)
                     [] OTHER -> (j # i) => ~same(i, j)}
      index(k) == CHOOSE i \in kept : Cardinality({j \in kept : j < i}) = k - 1
  IN [k \in 1..Cardinality(kept) |-> df[index(k)]]

\* df.duplicated(subset=identifier columns, keep=False): the rows that share
\* their identifier with another row.
duplicate_rows(df) ==
  SelectSeq(df, LAMBDA r :
    Cardinality({i \in DOMAIN df :
                   Key(df[i], identifier_columns) = Key(r, identifier_columns)}) > 1)

\* keep_map of drop_duplicates
keep_mapSkipKeepsFirst(res) ==
  CASE res = "f" -> "first"
    [] res = "l" -> "last"
    [] res = "s" -> "first"

keep_map(res) ==
  CASE res = "f" -> "first"
    [] res = "l" -> "last"
    [] res = "s" -> "none"

\* layer.insert_data_frame of upload_tags: the frame's rows as the staging
\* table holds them; empty_as_null is not requested.
TagStagingRows(df) ==
  [i \in DOMAIN df |-> [c \in DOMAIN df[i] |-> Stored(df[i][c], FALSE)]]

\* The conditions of purge_query.
IsEmptyTag(v) == v = "" \/ v = NULL

\* purge_query: delete the rows whose tag and subtag are both empty or null.
PurgeRowsEitherEmpty(table) ==
  SelectSeq(table, LAMBDA r : ~(IsEmptyTag(r.tag) \/ IsEmptyTag(r.subtag)))

PurgeRows(table) ==
  SelectSeq(table, LAMBDA r : ~(IsEmptyTag(r.tag) /\ IsEmptyTag(r.subtag)))

\* convert_empty_query: set the empty subtags to null.
ConvertEmptyWrongColumn(table) ==
  [i \in DOMAIN table |->
     IF table[i].subtag = "" THEN [table[i] EXCEPT !.tag = NULL] ELSE table[i]]

ConvertEmpty(table) ==
  [i \in DOMAIN table |->
     IF table[i].subtag = "" THEN [table[i] EXCEPT !.subtag = NULL] ELSE table[i]]

\* The join columns of merge_query in upload_tags.
MergeJoinColumnsIdOnly == <<"id">>

MergeJoinColumns == identifier_columns

\* if count: backup (and truncate when replacing); else go on to the merge.
AfterCountAlwaysBackup(c) == "backup"

AfterCount(c) == IF c # 0 THEN "backup" ELSE "merge"

TagArgs ==
  [entity : EntityType, should_drop : BOOLEAN, should_purge : BOOLEAN,
   interactive : BOOLEAN, file_name : {"f.csv"},
   csv : SeqsUpTo(CsvRowChoices, MaxCsvRows)]

InitTag ==
  /\ args \in TagArgs
  /\ \E tables \in TagTableChoices :
       /\ target = tables[1]
       /\ restore = tables[2]
  /\ before = target
  /\ restoreBefore = restore
  /\ pc = "load"
  /\ log = <<>>
  /\ connected = FALSE
  /\ staging = NoTable
  /\ strategy = "none"
  /\ pending = FALSE
  /\ raised = FALSE
  /\ frame = <<>>
  /\ result = -1
  /\ count = 0
  /\ resolution = "none"
  /\ run = 1
  /\ firstTarget = <<>>

\* return <value>
Return(value) ==
  /\ pc' = "done"
  /\ result' = value
  /\ UNCHANGED raised

\* apply_tags: if not drop_duplicates(...): return 0
ContinueOnAbort ==
  /\ pc' = "empty_check"
  /\ UNCHANGED <<result, raised>>

ReturnOnAbort == Return(0)

\* What no step of the tagging upload changes.
tagFixed == <<args, before, restoreBefore, strategy, pending, run, firstTarget>>

\* apply_tags up to the call of drop_duplicates: read the CSV, project it on
\* the entity's columns, decode the ids, normalize the tags.
LoadFrame ==
  /\ pc = "load"
  /\ frame' = strip_empty_tags(convert_id_columns(Project(args.csv)))
  /\ pc' = "drop_duplicates"
  /\ UNCHANGED <<log, connected, staging, target, restore, result, count,
                 resolution, raised, tagFixed>>

\* The frame after the first df.drop_duplicates of drop_duplicates.
WithoutExactDuplicates ==
  DropDuplicates(frame, identifier_columns \o tag_column_names, "first")

\* drop_duplicates when no identifier is left with two rows: return True.
DropDuplicatesNoConflict ==
  /\ pc = "drop_duplicates"
  /\ duplicate_rows(WithoutExactDuplicates) = <<>>
  /\ frame' = WithoutExactDuplicates
  /\ pc' = "empty_check"
  /\ UNCHANGED <<log, connected, staging, target, restore, result, count,
                 resolution, raised, tagFixed>>

\* drop_duplicates, not interactive, on conflicting rows: resolution = 'l'.
DropDuplicatesKeepLast ==
  /\ pc = "drop_duplicates"
  /\ duplicate_rows(WithoutExactDuplicates) # <<>>
  /\ ~args.interactive
  /\ resolution' = "l"
  /\ frame' = DropDuplicates(WithoutExactDuplicates, identifier_columns, keep_map("l"))
  /\ pc' = "empty_check"
  /\ UNCHANGED <<log, connected, staging, target, restore, result, count,
                 raised, tagFixed>>

\* drop_duplicates, interactive, on conflicting rows of an entity that has no
\* ad_id column: duplicate_rows.ad_id raises AttributeError.
DropDuplicatesNoAdId ==
  /\ pc = "drop_duplicates"
  /\ duplicate_rows(WithoutExactDuplicates) # <<>>
  /\ args.interactive
  /\ args.entity # "ad"
  /\ frame' = WithoutExactDuplicates
  /\ pc' = "done"
  /\ raised' = TRUE
  /\ UNCHANGED <<log, connected, staging, target, restore, result, count,
                 resolution, tagFixed>>

\* drop_duplicates, interactive, on conflicting rows: the operator's answer
\* at the prompt; 'a' returns False and apply_tags returns 0.
DropDuplicatesPrompt ==
  /\ pc = "drop_duplicates"
  /\ duplicate_rows(WithoutExactDuplicates) # <<>>
  /\ args.interactive
  /\ args.entity = "ad"
  /\ \E res \in {"f", "l", "s", "a"} :
       /\ resolution' = res
       /\ IF res = "a"
          THEN /\ frame' = WithoutExactDuplicates
               /\ ReturnOnAbort
          ELSE /\ frame' = DropDuplicates(WithoutExactDuplicates, identifier_columns,
                                          keep_map(res))
               /\ pc' = "empty_check"
               /\ UNCHANGED <<result, raised>>
  /\ UNCHANGED <<log, connected, staging, target, restore, count, tagFixed>>

\* df.empty of apply_tags: the frame has no rows.
df_emptyNever(df) == FALSE

df_empty(df) == df = <<>>

\* if df.empty: return 0
EmptyFrame ==
  /\ pc = "empty_check"
  /\ df_empty(frame)
  /\ Return(0)
  /\ UNCHANGED <<log, connected, staging, target, restore, frame, count,
                 resolution, tagFixed>>

\* df['upload_group'] = os.path.basename(file_name)
StampUploadGroup ==
  /\ pc = "empty_check"
  /\ ~df_empty(frame)
  /\ frame' = [i \in DOMAIN frame |->
                 [c \in DOMAIN frame[i] \cup {"upload_group"} |->
                    IF c = "upload_group" THEN args.file_name ELSE frame[i][c]]]
  /\ pc' = IF args.interactive THEN "count_tags" ELSE "connect"
  /\ UNCHANGED <<log, connected, staging, target, restore, result, count,
                 resolution, raised, tagFixed>>

\* count = count_tags(schema=schema_name, entity=entity), when interactive
CountTags ==
  /\ pc = "count_tags"
  /\ \/ /\ Call("count_tags", TRUE)
        /\ count' = Len(target)
        /\ Proceed("confirm")
     \/ /\ Call("count_tags", FALSE)
        /\ RaiseOutside
        /\ UNCHANGED count
  /\ UNCHANGED <<connected, staging, target, restore, frame, result, resolution,
                 args, before, restoreBefore, strategy, run, firstTarget>>

\* if confirmation.lower() != 'y': the prompt admits the answers 'y' and 'n'.
DeclinedNever(confirmation) == FALSE

Declined(confirmation) == confirmation # "y"

\* The operator's answer at the Replace / Merge prompt, which the log keeps
\* as the call "confirm" with ok for the answer 'y'.
Confirm ==
  /\ pc = "confirm"
  /\ \E confirmation \in {"y", "n"} :
       /\ Call("confirm", confirmation = "y")
       /\ IF Declined(confirmation)
          THEN Return(0)
          ELSE /\ pc' = "connect"
               /\ UNCHANGED <<result, raised>>
  /\ UNCHANGED <<connected, staging, target, restore, frame, count,
                 resolution, tagFixed>>

\* One warehouse call of upload_tags, at position at: it runs and control
\* passes to next, or it raises and upload_tags is left.
TagCall(at, name, next) ==
  /\ pc = at
  /\ \/ /\ Call(name, TRUE)
        /\ Proceed(next)
     \/ /\ Call(name, FALSE)
        /\ RaiseOutside
  /\ UNCHANGED <<frame, result, resolution, args, before, restoreBefore, strategy,
                 run, firstTarget>>

Ok == log'[Len(log')].ok

\* layer.connect()
TagConnect ==
  /\ TagCall("connect", "connect", "prepare")
  /\ connected' = Ok
  /\ UNCHANGED <<staging, target, restore, count>>

\* prepare_upload_query: drop the staging table if it exists, create it like
\* the target.
TagPrepare ==
  /\ TagCall("prepare", "prepare", "commit_prepare")
  /\ staging' = IF Ok THEN <<>> ELSE staging
  /\ UNCHANGED <<connected, target, restore, count>>

\* layer.commit()
TagCommitPrepare ==
  /\ TagCall("commit_prepare", "commit", "disconnect")
  /\ UNCHANGED <<connected, staging, target, restore, count>>

\* layer.disconnect()
TagDisconnect ==
  /\ TagCall("disconnect", "disconnect", "insert")
  /\ connected' = IF Ok THEN FALSE ELSE connected
  /\ UNCHANGED <<staging, target, restore, count>>

\* layer.insert_data_frame(data_frame=tags, ...)
TagInsert ==
  /\ TagCall("insert", "insert", "reconnect")
  /\ staging' = IF Ok THEN TagStagingRows(frame) ELSE staging
  /\ UNCHANGED <<connected, target, restore, count>>

\* layer.connect(), the second
TagReconnect ==
  /\ TagCall("reconnect", "connect", "count")
  /\ connected' = Ok
  /\ UNCHANGED <<staging, target, restore, count>>

\* count = count_query.run(sql_layer=layer).fetchone()[0]
TagCount ==
  /\ pc = "count"
  /\ \/ /\ Call("count", TRUE)
        /\ count' = Len(target)
        /\ Proceed(AfterCount(Len(target)))
     \/ /\ Call("count", FALSE)
        /\ RaiseOutside
        /\ UNCHANGED count
  /\ UNCHANGED <<connected, staging, target, restore, frame, result, resolution,
                 args, before, restoreBefore, strategy, run, firstTarget>>

\* backup_query: the restore table is dropped, created and filled from the target.
TagBackup ==
  /\ TagCall("backup", "backup", IF args.should_drop THEN "truncate" ELSE "merge")
  /\ restore' = IF Ok THEN target ELSE restore
  /\ UNCHANGED <<connected, staging, target, count>>

\* truncate_query
TagTruncate ==
  /\ TagCall("truncate", "truncate", "merge")
  /\ target' = IF Ok THEN <<>> ELSE target
  /\ UNCHANGED <<connected, staging, restore, count>>

\* merge_query
TagMerge ==
  /\ TagCall("merge", "merge", IF args.should_purge THEN "purge" ELSE "drop")
  /\ IF Ok
     THEN target' \in MergeResults(target, staging, MergeJoinColumns, update_column_names)
     ELSE target' = target
  /\ UNCHANGED <<connected, staging, restore, count>>

\* purge_query
TagPurge ==
  /\ TagCall("purge", "purge", "convert_empty")
  /\ target' = IF Ok THEN PurgeRows(target) ELSE target
  /\ UNCHANGED <<connected, staging, restore, count>>

\* convert_empty_query
TagConvertEmpty ==
  /\ TagCall("convert_empty", "convert_empty", "drop")
  /\ target' = IF Ok THEN ConvertEmpty(target) ELSE target
  /\ UNCHANGED <<connected, staging, restore, count>>

\* drop_upload_query
TagDrop ==
  /\ TagCall("drop", "drop", "commit")
  /\ staging' = IF Ok THEN NoTable ELSE staging
  /\ UNCHANGED <<connected, target, restore, count>>

\* layer.commit(); back in apply_tags: the final count when interactive, or
\* return len(df).
TagCommit ==
  /\ pc = "commit"
  /\ \/ /\ Call("commit", TRUE)
        /\ IF args.interactive
           THEN /\ pc' = "final_count"
                /\ UNCHANGED result
           ELSE /\ pc' = "done"
                /\ result' = Len(frame)
        /\ UNCHANGED <<pending, raised>>
     \/ /\ Call("commit", FALSE)
        /\ RaiseOutside
        /\ UNCHANGED result
  /\ UNCHANGED <<connected, staging, target, restore, frame, count, resolution,
                 args, before, restoreBefore, strategy, run, firstTarget>>

\* final_count = count_tags(...); return len(df)
FinalCount ==
  /\ pc = "final_count"
  /\ \/ /\ Call("count_tags", TRUE)
        /\ Return(Len(frame))
        /\ UNCHANGED pending
     \/ /\ Call("count_tags", FALSE)
        /\ RaiseOutside
        /\ UNCHANGED result
  /\ UNCHANGED <<connected, staging, target, restore, frame, count, resolution,
                 args, before, restoreBefore, strategy, run, firstTarget>>

\* The same tagging upload is run a second time, not interactive: the same
\* file, the same flags.
RunAgain ==
  /\ pc = "done"
  /\ run = 1
  /\ ~raised
  /\ ~args.interactive
  /\ run' = 2
  /\ firstTarget' = target
  /\ before' = target
  /\ restoreBefore' = restore
  /\ pc' = "load"
  /\ log' = <<>>
  /\ frame' = <<>>
  /\ result' = -1
  /\ count' = 0
  /\ resolution' = "none"
  /\ connected' = FALSE
  /\ UNCHANGED <<args, staging, target, restore, strategy, pending, raised>>

NextTag ==
  \/ LoadFrame
  \/ DropDuplicatesNoConflict
  \/ DropDuplicatesKeepLast
  \/ DropDuplicatesNoAdId
  \/ DropDuplicatesPrompt
  \/ EmptyFrame
  \/ StampUploadGroup
  \/ CountTags
  \/ Confirm
  \/ TagConnect
  \/ TagPrepare
  \/ TagCommitPrepare
  \/ TagDisconnect
  \/ TagInsert
  \/ TagReconnect
  \/ TagCount
  \/ TagBackup
  \/ TagTruncate
  \/ TagMerge
  \/ TagPurge
  \/ TagConvertEmpty
  \/ TagDrop
  \/ TagCommit
  \/ FinalCount
  \/ RunAgain

SpecTag == InitTag /\ [][NextTag]_vars

----------------------------------------------------------------------------
(* subir/base.py: the name sanitizers and ColumnType; get_table_structure *)

\* A name or a CSV cell is the sequence of its characters.
UpperLetters ==
  <<"A", "B", "C", "D", "E", "F", "G", "H", "I", "J", "K", "L", "M",
    "N", "O", "P", "Q", "R", "S", "T", "U", "V", "W", "X", "Y", "Z">>

LowerLetters ==
  <<"a", "b", "c", "d", "e", "f", "g", "h", "i", "j", "k", "l", "m",
    "n", "o", "p", "q", "r", "s", "t", "u", "v", "w", "x", "y", "z">>

Digits == {"0", "1", "2", "3", "4", "5", "6", "7", "8", "9"}

\* str.lower, one character at a time
Lower(ch) ==
  IF \E i \in DOMAIN UpperLetters : UpperLetters[i] = ch
  THEN LowerLetters[CHOOSE i \in DOMAIN UpperLetters : UpperLetters[i] = ch]
  ELSE ch

\* re.sub(pattern, '_', name.lower()) for a pattern [^...] whose class is kept
Substituted(name, kept) ==
  [i \in DOMAIN name |-> IF Lower(name[i]) \in kept THEN Lower(name[i]) ELSE "_"]

\* sanitized_column_name: the class [a-z0-9_ ] is kept
sanitized_column_name(name) ==
  Substituted(name, Range(LowerLetters) \cup Digits \cup {"_", " "})

\* sanitized_relation_name: the class [a-z0-9_] is kept
sanitized_relation_nameKeepsSpace(name) ==
  Substituted(name, Range(LowerLetters) \cup Digits \cup {"_", " "})

sanitized_relation_name(name) ==
  Substituted(name, Range(LowerLetters) \cup Digits \cup {"_"})

\* The members of ColumnType.
ColumnType ==
  {"integer", "decimal", "date", "short_text", "medium_text", "long_text", "boolean"}

\* A type text of the warehouse, held as its leading words and what follows
\* them: 'character varying(256)' is <<"character varying", "(256)">>.
\* ColumnType.<member>.value
value(t) ==
  CASE t = "integer" -> <<"bigint", "">>
    [] t = "decimal" -> <<"double precision", "">>
    [] t = "date" -> <<"date", "">>
    [] t = "short_text" -> <<"character varying", "(256)">>
    [] t = "medium_text" -> <<"character varying", "(8192)">>
    [] t = "long_text" -> <<"character varying", "(32768)">>
    [] t = "boolean" -> <<"boolean", "">>

\* result.find(prefix) == 0
StartsWith(text, prefix) == text[1] = prefix

\* The except branch of from_query_result: the prefix rules.
FromPrefix(text) ==
  IF StartsWith(text, "character varying") \/ StartsWith(text, "USER-DEFINED")
  THEN "long_text"
  ELSE IF StartsWith(text, "integer") THEN "integer"
  ELSE IF StartsWith(text, "numeric") THEN "decimal"
  ELSE IF StartsWith(text, "timestamp") THEN "date"
  ELSE "ValueError"

\* ColumnType.from_query_result: the member with that value, else the prefix
\* rules, else the ValueError is raised again.
from_query_resultPrefixFirst(text) ==
  IF FromPrefix(text) # "ValueError" THEN FromPrefix(text)
  ELSE IF \E t \in ColumnType : value(t) = text
  THEN CHOOSE t \in ColumnType : value(t) = text
  ELSE "ValueError"

from_query_result(text) ==
  IF \E t \in ColumnType : value(t) = text
  THEN CHOOSE t \in ColumnType : value(t) = text
  ELSE FromPrefix(text)

\* The type texts a column type query may return.
QueryResultChoices ==
  {value(t) : t \in ColumnType} \cup
  {<<"character varying", "(300)">>, <<"USER-DEFINED", "">>, <<"integer", "">>,
   <<"numeric", "(10,2)">>, <<"timestamp", " without time zone">>, <<"text", "">>}

\* A value of an object column: its leading characters text, followed by pad
\* characters that are neither digits nor separators; isna marks a NaN.
Text(chars, pad) == [text |-> chars, pad |-> pad, isna |-> FALSE]

NaN == [text |-> <<>>, pad |-> 0, isna |-> TRUE]

\* len(str(value)): a NaN is written 'nan'
StrLen(v) == IF v.isna THEN 3 ELSE Len(v.text) + v.pad

\* The character of value v at position i.
CharAt(v, i) ==
  IF i <= Len(v.text) THEN v.text[i] ELSE IF i <= StrLen(v) THEN "x" ELSE "end"

\* re.match of D{lo1,hi1}[/-]D{lo2,hi2}[/-]D{lo3,hi3} at the start of v: some
\* choice of the three numbers of digits fits.
re_match(groups, v) ==
  \E n1 \in groups[1], n2 \in groups[2], n3 \in groups[3] :
    /\ \A i \in 1..n1 : CharAt(v, i) \in Digits
    /\ CharAt(v, n1 + 1) \in {"/", "-"}
    /\ \A i \in (n1 + 2)..(n1 + 1 + n2) : CharAt(v, i) \in Digits
    /\ CharAt(v, n1 + n2 + 2) \in {"/", "-"}
    /\ \A i \in (n1 + n2 + 3)..(n1 + n2 + 2 + n3) : CharAt(v, i) \in Digits

\* The two patterns of _pd_column_is_date: day or month first, year first.
MatchesDatePattern(v) ==
  \/ re_match(<<1..2, 1..2, 2..4>>, v)
  \/ re_match(<<2..4, 1..2, 1..2>>, v)

\* if not value or pd.isna(value): continue
IsSkipped(v) == v.isna \/ StrLen(v) = 0

\* ColumnType._pd_column_is_date
pd_column_is_date(values) ==
  /\ \E i \in DOMAIN values : ~IsSkipped(values[i])
  /\ \A i \in DOMAIN values : ~IsSkipped(values[i]) => MatchesDatePattern(values[i])

\* pd_column.apply(str).apply(len).max() of a column that has values
MaxStrLen(values) ==
  CHOOSE n \in {StrLen(values[i]) : i \in DOMAIN values} :
    \A i \in DOMAIN values : StrLen(values[i]) <= n

\* The object branch of from_pd_column.  The maximum over no values is NaN,
\* which is neither > 2048 nor < 64.
FromObjectColumnInclusive(values) ==
  IF values = <<>> THEN "medium_text"
  ELSE IF MaxStrLen(values) > 2048 THEN "long_text"
  ELSE IF MaxStrLen(values) <= 64
  THEN (IF pd_column_is_date(values) THEN "date" ELSE "short_text")
  ELSE "medium_text"

FromObjectColumn(values) ==
  IF values = <<>> THEN "medium_text"
  ELSE IF MaxStrLen(values) > 2048 THEN "long_text"
  ELSE IF MaxStrLen(values) < 64
  THEN (IF pd_column_is_date(values) THEN "date" ELSE "short_text")
  ELSE "medium_text"

\* ColumnType.from_pd_column
from_pd_column(column) ==
  CASE column.dtype = "int64" -> "integer"
    [] column.dtype = "float64" -> "decimal"
    [] column.dtype = "bool" -> "boolean"
    [] column.dtype = "object" -> FromObjectColumn(column.values)
    [] OTHER -> "long_text"

\* Date-like and plain texts, at the lengths where the inferred type changes.
ObjectValueChoices ==
  {Text(<<"1", "/", "2", "/", "2", "0">>, 0),
   Text(<<"2", "0", "-", "1", "-", "2">>, 0),
   Text(<<"1", "/", "2", "/", "2", "0">>, 57),
   Text(<<"1", "/", "2", "/", "2", "0">>, 58),
   Text(<<"1", "/", "2", "/", "2">>, 0),
   Text(<<"a", "b">>, 0),
   Text(<<"a", "b">>, 2046),
   Text(<<"a", "b">>, 2047),
   Text(<<>>, 0),
   NaN}

PdColumnChoices ==
  [dtype : {"object"}, values : SeqsUpTo(ObjectValueChoices, MaxColumnValues)]
  \cup [dtype : {"int64", "float64", "bool", "datetime64[ns]"}, values : {<<>>}]

\* pd.read_csv(csv_stream, thousands=','): the thousands separators of a cell
\* are skipped when it is read as a number.
StripThousandsNone(cell) == cell

StripThousands(cell) == SelectSeq(cell, LAMBDA ch : ch # ",")

\* The cell reads as a whole number.
IsIntegerCell(cell) ==
  LET digits == StripThousands(cell)
  IN digits # <<>> /\ \A i \in DOMAIN digits : digits[i] \in Digits

\* The cell reads as a number with a fractional part.
IsFloatCell(cell) ==
  LET digits == StripThousands(cell)
  IN /\ Cardinality({i \in DOMAIN digits : digits[i] = "."}) = 1
     /\ \E i \in DOMAIN digits : digits[i] \in Digits
     /\ \A i \in DOMAIN digits : digits[i] \in Digits \cup {"."}

\* The cell reads as a truth value.
IsBoolCell(cell) == cell \in {<<"T", "r", "u", "e">>, <<"F", "a", "l", "s", "e">>}

\* The column pd.read_csv builds from the cells of one CSV column: int64 when
\* every cell is a whole number, bool when every cell is a truth value,
\* float64 when every cell is a number or empty, else object with the cells'
\* texts and NaN for the empty cells.
read_csv_column(cells) ==
  IF cells = <<>> THEN [dtype |-> "object", values |-> <<>>]
  ELSE IF \A i \in DOMAIN cells : IsIntegerCell(cells[i])
  THEN [dtype |-> "int64", values |-> <<>>]
  ELSE IF \A i \in DOMAIN cells : IsBoolCell(cells[i])
  THEN [dtype |-> "bool", values |-> <<>>]
  ELSE IF \A i \in DOMAIN cells :
            cells[i] = <<>> \/ IsIntegerCell(cells[i]) \/ IsFloatCell(cells[i])
  THEN [dtype |-> "float64", values |-> <<>>]
  ELSE [dtype |-> "object",
        values |-> [i \in DOMAIN cells |->
                      IF cells[i] = <<>> THEN NaN ELSE Text(cells[i], 0)]]

\* get_table_structure: the sanitized name and the inferred type's value of
\* every column of the CSV.
get_table_structure(csv) ==
  [k \in DOMAIN csv.header |->
     [name |-> sanitized_column_name(csv.header[k]),
      type |-> value(from_pd_column(
                 read_csv_column([i \in DOMAIN csv.rows |-> csv.rows[i][k]])))]]

\* The characters of the names sanitized.
NameAlphabet == {"a", "A", "1", "_", " ", ";"}

\* The CSV files whose structure is inferred: columns id, name, amount.
CsvHeader == <<<<"i", "d">>, <<"N", "a", "m", "e">>, <<"a", "m", "o", "u", "n", "t">>>>

IdCellChoices == {<<"7">>, <<"1", "2">>}

NameCellChoices == {<<"b", "o", "b">>, <<>>}

AmountCellChoices ==
  {<<"1", ",", "2", "0", "0">>, <<"5", "0">>, <<"1", ".", "5">>, <<>>}

CsvChoices ==
  [header : {CsvHeader},
   rows : SeqsUpTo({<<i, n, a>> : i \in IdCellChoices, n \in NameCellChoices,
                                  a \in AmountCellChoices}, MaxCsvLines)]

FunctionCalls ==
  [fn : {"sanitized_relation_name"}, x : SeqsUpTo(NameAlphabet, MaxNameLen)]
  \cup [fn : {"from_query_result"}, x : QueryResultChoices]
  \cup [fn : {"from_pd_column"}, x : PdColumnChoices]
  \cup [fn : {"get_table_structure"}, x : CsvChoices]

InitFunctions ==
  /\ args \in FunctionCalls
  /\ pc = "call"
  /\ result = -1
  /\ raised = FALSE
  /\ log = <<>>
  /\ connected = FALSE
  /\ staging = NoTable
  /\ target = <<>>
  /\ before = <<>>
  /\ strategy = "none"
  /\ pending = FALSE
  /\ frame = <<>>
  /\ restore = NoTable
  /\ restoreBefore = NoTable
  /\ count = 0
  /\ resolution = "none"
  /\ run = 1
  /\ firstTarget = <<>>

\* The function returns value.
Returns(fn, returned) ==
  /\ pc = "call"
  /\ args.fn = fn
  /\ pc' = "done"
  /\ result' = returned
  /\ UNCHANGED <<args, log, connected, staging, target, before, strategy, pending,
                 frame, restore, restoreBefore, count, resolution, run, firstTarget>>

CallSanitizedRelationName ==
  /\ Returns("sanitized_relation_name", sanitized_relation_name(args.x))
  /\ UNCHANGED raised

CallFromQueryResult ==
  /\ Returns("from_query_result", from_query_result(args.x))
  /\ raised' = (from_query_result(args.x) = "ValueError")

CallFromPdColumn ==
  /\ Returns("from_pd_column", from_pd_column(args.x))
  /\ UNCHANGED raised

CallGetTableStructure ==
  /\ Returns("get_table_structure", get_table_structure(args.x))
  /\ UNCHANGED raised

NextFunctions ==
  \/ CallSanitizedRelationName
  \/ CallFromQueryResult
  \/ CallFromPdColumn
  \/ CallGetTableStructure

SpecFunctions == InitFunctions /\ [][NextFunctions]_vars

----------------------------------------------------------------------------
(* Uploader.upload and get_column_types *)

\* The characters of a column name of the target.
Spelled(column) ==
  CASE column = "id" -> <<"i", "d">>
    [] column = "a" -> <<"a">>
    [] column = "b" -> <<"b">>

\* The column of the target that is spelled chars.
ColumnNamed(chars) == CHOOSE c \in Range(TableColumns) : Spelled(c) = chars

\* The headers of the CSV: the target's columns with a capitalized name; an
\* extra column, in another order; without b; with a! for a; none of them.
HeaderChoices ==
  {<<<<"I", "D">>, <<"a">>, <<"b">>>>,
   <<<<"b">>, <<"x", " ", "y">>, <<"a">>, <<"i", "d">>>>,
   <<<<"i", "d">>, <<"a">>>>,
   <<<<"a", "!">>, <<"i", "d">>, <<"b">>>>,
   <<<<"x">>>>}

\* The rank of a character in the order sorted() compares by.
CharRank(ch) ==
  IF ch = " " THEN 0
  ELSE IF ch \in Digits THEN 1
  ELSE IF ch = "_" THEN 2
  ELSE 2 + (CHOOSE i \in DOMAIN LowerLetters : LowerLetters[i] = ch)

\* x < y for two names: the order of Python's strings.
RECURSIVE NameLess(_, _)
NameLess(x, y) ==
  IF y = <<>> THEN FALSE
  ELSE IF x = <<>> THEN TRUE
  ELSE IF Head(x) = Head(y) THEN NameLess(Tail(x), Tail(y))
  ELSE CharRank(Head(x)) < CharRank(Head(y))

\* sorted(names)
Sorted(names) ==
  CHOOSE s \in [1..Cardinality(names) -> names] :
    \A i, j \in 1..Cardinality(names) : i < j => NameLess(s[i], s[j])

\* missing_columns = set(type_transforms.keys()) - set(columns)
MissingColumnsReversed(table_columns, columns) == Range(columns) \ table_columns

MissingColumns(table_columns, columns) == table_columns \ Range(columns)

\* The answers of the column type query: types from_query_result knows, or
\* one it does not know.
ColumnResultChoices ==
  {[id |-> <<"bigint", "">>, a |-> <<"character varying", "(256)">>,
    b |-> <<"character varying", "(300)">>],
   [id |-> <<"bigint", "">>, a |-> <<"text", "">>,
    b |-> <<"character varying", "(300)">>]}

\* The rows of the CSV, by the target's column they belong to: none, one,
\* two with the same id.
CsvFrameChoices ==
  {<<>>,
   <<[id |-> "1", a |-> "p", b |-> "p"]>>,
   <<[id |-> "1", a |-> "p", b |-> "p"], [id |-> "1", a |-> "q", b |-> "p"]>>}

\* The target before the upload: empty, or one row.
CsvTargetChoices == {<<>>, <<[id |-> "1", a |-> "r", b |-> "s"]>>}

UploadCsvArgs ==
  [table_name : TableNameChoices,
   replace : BOOLEAN, merge_replace : BOOLEAN, empty_as_null : BOOLEAN,
   merge_column_names : MergeColumnChoices,
   header : HeaderChoices,
   columns : {<<>>},
   rows : CsvFrameChoices]

\* No ValueError has been raised by upload itself.
NoError == [error |-> "none", names |-> <<>>]

InitUploadCsv ==
  /\ args \in UploadCsvArgs
  /\ target \in CsvTargetChoices
  /\ before = target
  /\ pc = "get_column_types"
  /\ log = <<>>
  /\ connected = FALSE
  /\ staging = NoTable
  /\ strategy = "none"
  /\ pending = FALSE
  /\ raised = FALSE
  /\ frame = <<>>
  /\ restore = NoTable
  /\ restoreBefore = NoTable
  /\ result = NoError
  /\ count = 0
  /\ resolution = "none"
  /\ run = 1
  /\ firstTarget = <<>>

\* raise ValueError(message, names)
RaiseValueError(message, names) ==
  /\ result' = [error |-> message, names |-> names]
  /\ pc' = "done"
  /\ raised' = TRUE

\* What the steps of upload before upload_data_frame leave alone.
uploadFixed ==
  <<connected, staging, target, before, strategy, pending, frame, restore,
    restoreBefore, count, resolution, run, firstTarget>>

\* column_types = self.get_column_types(...): the table name is validated,
\* the column type query runs, every type text is mapped by from_query_result.
GetColumnTypes ==
  /\ pc = "get_column_types"
  /\ IF sanitized_relation_name(args.table_name) # args.table_name
     THEN /\ RaiseValueError("Invalid table name", <<args.table_name>>)
          /\ UNCHANGED log
     ELSE \/ /\ Call("column_types", FALSE)
             /\ pc' = "done"
             /\ raised' = TRUE
             /\ UNCHANGED result
          \/ /\ Call("column_types", TRUE)
             /\ \E column_results \in ColumnResultChoices :
                  IF \E c \in DOMAIN column_results :
                       from_query_result(column_results[c]) = "ValueError"
                  THEN RaiseValueError("not a valid ColumnType", <<>>)
                  ELSE /\ pc' = "read_csv"
                       /\ UNCHANGED <<result, raised>>
  /\ UNCHANGED <<args, uploadFixed>>

\* The rest of upload: read the CSV, rename its columns, keep the columns
\* of the target, raise if a column of the target is missing, else call
\* upload_data_frame with the frame of the kept columns.
ReadCsv ==
  /\ pc = "read_csv"
  /\ LET renamed == [k \in DOMAIN args.header |-> sanitized_column_name(args.header[k])]
         type_transforms == {Spelled(c) : c \in Range(TableColumns)}
         columns == SelectSeq(renamed, LAMBDA name : name \in type_transforms)
         missing_columns == MissingColumns(type_transforms, columns)
     IN IF missing_columns # {}
        THEN /\ RaiseValueError("CSV does not contain all table columns",
                                Sorted(missing_columns))
             /\ UNCHANGED args
        ELSE /\ args' = [args EXCEPT
                           !.columns = [k \in DOMAIN columns |-> ColumnNamed(columns[k])]]
             /\ pc' = "connect"
             /\ UNCHANGED <<result, raised>>
  /\ UNCHANGED <<log, uploadFixed>>

NextUploadCsv ==
  \/ GetColumnTypes
  \/ ReadCsv
  \/ NextUpload

SpecUploadCsv == InitUploadCsv /\ [][NextUploadCsv]_vars

----------------------------------------------------------------------------
(* Properties of upload_data_frame *)

\* The positions in the log of the calls named name.
Positions(name) == {i \in DOMAIN log : log[i].call = name}

Ran(name) == \E i \in DOMAIN log : log[i] = [call |-> name, ok |-> TRUE]

Failed(name) == \E i \in DOMAIN log : log[i] = [call |-> name, ok |-> FALSE]

\* The call that was made last is name, and it ran.
JustRan(name) == log # <<>> /\ log[Len(log)] = [call |-> name, ok |-> TRUE]

\* C1: once the staging table has been created, every way out of
\* upload_data_frame has run the staging table's drop statement after the
\* table's creation and before any disconnect, with at most one combination
\* statement between creation and drop.
C1_StagingDroppedOnEveryExit ==
  (pc = "done" /\ Ran("prepare")) =>
    \E p \in Positions("prepare"), d \in Positions("drop") :
      /\ p < d
      /\ \A x \in Positions("disconnect") : d < x
      /\ Cardinality({i \in Positions("combine") : p < i /\ i < d}) <= 1
      /\ Cardinality(Positions("combine")) <= 1

\* The combination statement failed, and the call has ended.
C1_Witness ==
  /\ pc = "done"
  /\ Failed("combine")
  /\ Ran("drop")
  /\ Ran("disconnect")

\* C3: the strategy built is the one the priority replace > merge_replace >
\* merge_column_names > append selects, and a call whose rows were inserted
\* has built and executed exactly one combination statement.
C3_StrategyIsTotalAndPrioritized ==
  /\ strategy # "none" =>
       /\ args.replace => strategy = "Replace"
       /\ (~args.replace /\ args.merge_replace) => strategy = "MergeReplace"
       /\ (~args.replace /\ ~args.merge_replace /\ Len(args.merge_column_names) > 0)
            => strategy = "Merge"
       /\ (~args.replace /\ ~args.merge_replace /\ Len(args.merge_column_names) = 0)
            => strategy = "Append"
  /\ Cardinality(Positions("combine")) = (IF strategy = "none" THEN 0 ELSE 1)
  /\ (Ran("insert") /\ pc # "combine") => strategy # "none"

\* merge_replace and merge_column_names are both given: Merge-Replace was built.
C3_Witness ==
  /\ ~args.replace
  /\ args.merge_replace
  /\ Len(args.merge_column_names) > 0
  /\ strategy = "MergeReplace"
  /\ Ran("combine")

\* The frame's columns that are not join columns.
NonJoinFrameColumns == Range(args.columns) \ Range(args.merge_column_names)

\* The staging rows whose join key matches no row the target had.
Unmatched == SelectSeq(staging, LAMBDA s : ~HasMatchIn(s, before, args.merge_column_names))

\* C7: a keyed merge that ran has left every target row whose key is absent
\* from the staging table as it was, has set in every other target row exactly
\* the frame's non-join columns, from a staging row with the same key, and has
\* inserted every staging row whose key matched no target row.
C7_KeyedMergeUpserts ==
  (/\ ~args.replace
   /\ ~args.merge_replace
   /\ Len(args.merge_column_names) > 0
   /\ JustRan("combine")) =>
    /\ Len(target) = Len(before) + Len(Unmatched)
    /\ \A i \in DOMAIN before :
         IF HasMatchIn(before[i], staging, args.merge_column_names)
         THEN \E j \in DOMAIN staging :
                /\ Matches(before[i], staging[j], args.merge_column_names)
                /\ \A c \in Range(TableColumns) :
                     target[i][c] = IF c \in NonJoinFrameColumns
                                    THEN staging[j][c] ELSE before[i][c]
         ELSE target[i] = before[i]
    /\ SameRows(SubSeq(target, Len(before) + 1, Len(target)), Unmatched)

\* A keyed merge of a frame without column b has updated one row, inserted one
\* and left one alone.
C7_Witness ==
  /\ ~args.replace
  /\ ~args.merge_replace
  /\ args.merge_column_names = <<"id">>
  /\ args.columns = <<"id", "a">>
  /\ JustRan("combine")
  /\ Len(before) = 2
  /\ Len(target) = 3
  /\ target[1] # before[1]
  /\ target[2] = before[2]

\* The join-key values of the rows of a table.
KeySet(table) ==
  {[c \in Range(args.merge_column_names) |-> table[i][c]] : i \in DOMAIN table}

\* C8: after a Merge-Replace upload that ran, the target holds the join keys
\* of the staging table and no other.
C8_MergeReplaceKeySets ==
  (/\ ~args.replace
   /\ args.merge_replace
   /\ JustRan("combine")) =>
    KeySet(target) = KeySet(staging)

\* A Merge-Replace that deleted a row, kept one and inserted one.
C8_Witness ==
  /\ ~args.replace
  /\ args.merge_replace
  /\ args.merge_column_names = <<"id">>
  /\ JustRan("combine")
  /\ KeySet(before) \ KeySet(target) # {}
  /\ KeySet(before) \cap KeySet(target) # {}
  /\ KeySet(target) \ KeySet(before) # {}

----------------------------------------------------------------------------
(* Properties of the tagging upload *)

\* C2: when upload_tags is over, however it ended, a staging table it had
\* created and gone on to fill is dropped.
C2_TagStagingAlwaysDropped ==
  (pc = "done" /\ Positions("insert") # {}) => staging = NoTable

\* C4: after the answer 'a' at the conflict prompt apply_tags has returned 0
\* and has made no warehouse call: no staging table, the restore table and
\* the target as they were.
C4_AbortAppliesNothing ==
  resolution = "a" =>
    /\ pc = "done"
    /\ result = 0
    /\ ~raised
    /\ log = <<>>
    /\ staging = NoTable
    /\ restore = restoreBefore
    /\ target = before

\* The operator has answered 'a' on a frame with conflicting rows.
C4_Witness ==
  /\ resolution = "a"
  /\ args.interactive
  /\ Len(frame) > 1
  /\ pc = "done"

\* The frame handed to drop_duplicates.
Normalized == strip_empty_tags(convert_id_columns(Project(args.csv)))

\* The rows of table df whose identifier is that of row r.
WithIdentifier(df, r) ==
  {i \in DOMAIN df : Key(df[i], identifier_columns) = Key(r, identifier_columns)}

Last(indices) == CHOOSE i \in indices : \A j \in indices : j <= i

\* C5: not interactive, every identifier that comes with differing tags is
\* left with one row, which carries the tags of the identifier's last row in
\* the CSV.
C5_LastOccurrenceWins ==
  (~args.interactive /\ pc \notin {"load", "drop_duplicates"} /\ run = 1) =>
    \A i \in DOMAIN Normalized :
      LET rows == WithIdentifier(Normalized, Normalized[i])
      IN Cardinality({Key(Normalized[j], tag_column_names) : j \in rows}) > 1 =>
           /\ Cardinality(WithIdentifier(frame, Normalized[i])) = 1
           /\ \A k \in WithIdentifier(frame, Normalized[i]) :
                Key(frame[k], tag_column_names)
                  = Key(Normalized[Last(rows)], tag_column_names)

\* C6: the target changes only after the count was read; when that count is
\* not zero the restore table then holds the rows the target had, written by
\* a backup made while the target was untouched; when it is zero no backup
\* is made and the restore table stays as it was.
C6_BackupBeforeTargetChanges ==
  [][/\ (target' # target /\ run' = run) =>
          /\ Ran("count")
          /\ count = Len(before)
          /\ IF count # 0
             THEN Ran("backup") /\ restore = before
             ELSE Positions("backup") = {} /\ restore = restoreBefore
     /\ (Positions("backup")' # Positions("backup") /\ run' = run) =>
          /\ count # 0
          /\ target = before
          /\ target' = target
          /\ Ran("backup")' => restore' = target
     /\ (restore' # restore) => Positions("backup")' # Positions("backup")
    ]_vars

\* A replacing upload has backed the target up and then truncated it.
C6_Witness ==
  /\ Ran("backup")
  /\ Ran("truncate")
  /\ Ran("merge")
  /\ before # <<>>
  /\ restore = before
  /\ restore # restoreBefore
  /\ target # before

\* C9: the target that the purge step leaves is left as it is by a second
\* purge.
C9_PurgeIdempotent ==
  Ran("convert_empty") => ConvertEmpty(PurgeRows(target)) = target

\* The purge has deleted the uploaded row with empty tags and has set the
\* empty subtag of another uploaded row to null.
C9_Witness ==
  /\ Ran("convert_empty")
  /\ staging # NoTable
  /\ \E i \in DOMAIN staging : staging[i].channel = ""
  /\ \A j \in DOMAIN target : target[j].channel # ""
  /\ \E j \in DOMAIN target :
       target[j].subtag = NULL /\ target[j].upload_group = args.file_name

C11_PurgeRemovesEmptyTagRows ==
  [][/\ Ran("convert_empty")' =>
          \A i \in DOMAIN target' :
            /\ ~(target'[i].tag \in {"", NULL} /\ target'[i].subtag \in {"", NULL})
            /\ target'[i].subtag # ""
     /\ (pc = "purge" /\ pc' = "convert_empty") =>
          /\ \A r \in Range(target) :
               (r.tag \notin {"", NULL} \/ r.subtag \notin {"", NULL})
                 => Copies(target', r) = Copies(target, r)
          /\ Range(target') \subseteq Range(target)
     /\ (pc = "convert_empty" /\ pc' = "drop") =>
          /\ Len(target') = Len(target)
          /\ \A i \in DOMAIN target :
               /\ target'[i].tag = target[i].tag
               /\ target'[i].id = target[i].id
               /\ target[i].subtag # "" => target'[i] = target[i]
    ]_vars

\* The target held two rows; the upload gave one of them a tag and the purge
\* deleted the other, whose tag and subtag were still empty: one row is left.
C11_Witness ==
  /\ Ran("convert_empty")
  /\ run = 1
  /\ Len(before) = 2
  /\ \E i \in DOMAIN before : before[i].tag = NULL /\ before[i].subtag = ""
  /\ Len(target) = 1
  /\ target[1].tag = "A"
  /\ target[1].subtag = NULL

\* C15: when no row is left after the projection, the id conversion, the tag
\* normalization and the removal of duplicates, apply_tags returns 0 and has
\* made no warehouse call: no table is created or changed.
C15_EmptyFrameReturnsZero ==
  (frame = <<>> /\ pc \notin {"load", "drop_duplicates", "empty_check"}) =>
    /\ pc = "done"
    /\ result = 0
    /\ ~raised
    /\ log = <<>>
    /\ ~connected
    /\ target = before
    /\ restore = restoreBefore

\* A file with rows, all of them without an identifier, has been loaded and
\* the call has returned.
C15_Witness ==
  /\ pc = "done"
  /\ args.csv # <<>>
  /\ frame = <<>>
  /\ result = 0
  /\ log = <<>>

\* C14: for every member t of ColumnType, from_query_result of t's own value
\* returns t: the three text members are not collapsed into long_text by the
\* 'character varying' prefix rule.
C14_FromQueryResultRoundTrip ==
  (pc = "done" /\ args.fn = "from_query_result") =>
    \A t \in ColumnType : args.x = value(t) => result = t

\* from_query_result has been applied to the value of short_text.
C14_Witness ==
  /\ pc = "done"
  /\ args.fn = "from_query_result"
  /\ args.x = <<"character varying", "(256)">>
  /\ result = "short_text"

\* The values of the column that are neither empty nor missing.
NonEmptyValues(values) == {i \in DOMAIN values : ~values[i].isna /\ StrLen(values[i]) > 0}

\* C16: for a free-text column that has values, with L the maximum length of
\* its values as text: the type is long text iff L > 2048, medium text iff
\* 64 <= L <= 2048, and for L < 64 it is date iff the column has a non-empty
\* value and every non-empty value begins with the date pattern, else short
\* text; a column with only empty values is never a date.
C16_FreeTextInference ==
  (pc = "done" /\ args.fn = "from_pd_column" /\ args.x.dtype = "object"
     /\ args.x.values # <<>>) =>
    LET values == args.x.values
        above(n) == \E i \in DOMAIN values : StrLen(values[i]) > n
    IN /\ result = "long_text" <=> above(2048)
       /\ result = "medium_text" <=> (above(63) /\ ~above(2048))
       /\ ~above(63) =>
            /\ result \in {"date", "short_text"}
            /\ result = "date" <=>
                 /\ NonEmptyValues(values) # {}
                 /\ \A i \in NonEmptyValues(values) : MatchesDatePattern(values[i])
       /\ NonEmptyValues(values) = {} => result # "date"

\* A column of a 63 character value that begins with a date and a missing
\* value has been inferred as date.
C16_Witness ==
  /\ pc = "done"
  /\ args.fn = "from_pd_column"
  /\ args.x.dtype = "object"
  /\ \E i \in DOMAIN args.x.values : StrLen(args.x.values[i]) = 63
  /\ \E i \in DOMAIN args.x.values : args.x.values[i].isna
  /\ result = "date"

\* The type get_table_structure gave the column named name.
InferredType(structure, name) ==
  LET k == CHOOSE k \in DOMAIN structure : structure[k].name = name
  IN structure[k].type

\* The cells of column k of the CSV.
Cells(csv, k) == {csv.rows[i][k] : i \in DOMAIN csv.rows}

\* The CSV of the example: whole-number ids, a name in every row, and the
\* amounts "1,200" and "50".
IsAmountExample(csv) ==
  /\ Cells(csv, 3) = {<<"1", ",", "2", "0", "0">>, <<"5", "0">>}
  /\ <<>> \notin Cells(csv, 2)

C18_SanitizeIdempotent ==
  (pc = "done" /\ args.fn = "sanitized_relation_name") =>
    /\ sanitized_relation_name(result) = result
    /\ \A i \in DOMAIN result : result[i] \in Range(LowerLetters) \cup Digits \cup {"_"}

\* A name with a capital, a space and a semicolon has been sanitized.
C18_Witness ==
  /\ pc = "done"
  /\ args.fn = "sanitized_relation_name"
  /\ args.x = <<"A", " ", ";">>
  /\ result = <<"a", "_", "_">>

\* The columns of the target that no column of the CSV is named after, once
\* the CSV's header is sanitized.
Missing ==
  {c \in Range(TableColumns) :
     \A k \in DOMAIN args.header : sanitized_column_name(args.header[k]) # Spelled(c)}

\* C12: when a column of the target is absent from the sanitized header of
\* the CSV, upload ends by raising, with the missing-columns error that lists
\* the absent columns in order unless an earlier step of upload has failed,
\* and no staging table has been created and no target row changed; when none
\* is absent, the frame passed on holds the target's columns and no other,
\* and upload goes on to upload_data_frame.
C12_MissingColumnsRaiseBeforeUpload ==
  /\ Missing # {} =>
       /\ Positions("connect") = {} /\ Positions("prepare") = {}
       /\ staging = NoTable
       /\ target = before
       /\ pc \in {"get_column_types", "read_csv", "done"}
       /\ (pc = "done" /\ Ran("column_types")
             /\ result.error # "not a valid ColumnType") =>
            /\ raised
            /\ result.error = "CSV does not contain all table columns"
            /\ Range(result.names) = {Spelled(c) : c \in Missing}
            /\ \A i, j \in DOMAIN result.names :
                 i < j => NameLess(result.names[i], result.names[j])
  /\ (Missing = {} /\ Ran("column_types") /\ result = NoError) =>
       /\ pc # "done" \/ Positions("connect") # {}
       /\ pc # "get_column_types"
       /\ pc # "read_csv" =>
            /\ Range(args.columns) = Range(TableColumns)
            /\ Len(args.columns) = Len(TableColumns)

\* A CSV that has none of the target's columns has been refused, the three
\* columns listed in order, and the target had rows.
C12_Witness ==
  /\ pc = "done"
  /\ raised
  /\ result = [error |-> "CSV does not contain all table columns",
               names |-> <<<<"a">>, <<"b">>, <<"i", "d">>>>]
  /\ before # <<>>
  /\ log = <<[call |-> "column_types", ok |-> TRUE]>>

\* The names that have been put into a statement's text:
\* PrepareUploadTableQuery writes the table name into the text it runs.
InterpolatedNames == IF Positions("prepare") # {} THEN {args.table_name} ELSE {}

\* C13: every name a caller passed that has been put into the text of a
\* statement equals its sanitized form.
C13_InterpolatedNamesAreSanitized ==
  \A name \in InterpolatedNames : sanitized_relation_name(name) = name

\* C19, as stated: every call of upload_data_frame that has ended has
\* attempted the drop of the staging table exactly once, and has raised if
\* the drop failed.
C19_DropAttemptedOncePerCall ==
  pc = "done" =>
    /\ Cardinality(Positions("drop")) = 1
    /\ Failed("drop") => raised

\* C19, amended: the drop is never attempted twice; a call that has ended has
\* attempted it exactly once if the staging table's creation ran and not at
\* all otherwise; and if the drop failed the call has raised, whether or not
\* the combination statement had failed before.
C19_DropOnceWhenStagingCreated ==
  /\ Cardinality(Positions("drop")) <= 1
  /\ pc = "done" =>
       /\ Cardinality(Positions("drop")) = (IF Ran("prepare") THEN 1 ELSE 0)
       /\ Failed("drop") => raised

\* The combination statement failed, then the drop failed, and the call has
\* raised.
C19_Witness ==
  /\ pc = "done"
  /\ Failed("combine")
  /\ Failed("drop")
  /\ raised

\* C20: after a Replace whose truncate and append both ran, the target's rows
\* are exactly the rows inserted into the staging table; once the truncate
\* ran and the append failed, the target is empty and stays empty.
C20_ReplaceLeavesStagingRows ==
  strategy = "Replace" =>
    /\ Ran("combine") =>
         target = StagingRows(args.columns, args.rows, args.empty_as_null)
    /\ (Ran("truncate") /\ Failed("combine")) => target = <<>>

\* The target had rows, the truncate ran, the append failed: the call has
\* ended and the target is empty.
C20_Witness ==
  /\ pc = "done"
  /\ strategy = "Replace"
  /\ Ran("truncate")
  /\ Failed("combine")
  /\ before # <<>>
  /\ target = <<>>
  /\ raised

\* C21: every call of upload_data_frame that has opened the connection and
\* has ended, by returning or by raising, has closed it.
C21_ConnectionClosedOnEveryExit ==
  (pc = "done" /\ Ran("connect")) => (~connected /\ Ran("disconnect"))

\* No two rows of table df have the same identifier.
OneRowPerIdentifier(df) ==
  \A i, j \in DOMAIN df :
    Key(df[i], identifier_columns) = Key(df[j], identifier_columns) => i = j

\* C22: when drop_duplicates returns True the frame has at most one row per
\* identifier and no row it did not have; an identifier that came with
\* differing tags is left with exactly one of its rows under 'first' and
\* 'last' and with none under 'skip'; every other identifier is left with one
\* of its rows, which are all the same; and the frame upload_tags is called
\* with has at most one row per identifier.
C22_OneRowPerIdentifier ==
  [][/\ (pc = "drop_duplicates" /\ pc' = "empty_check") =>
          /\ OneRowPerIdentifier(frame')
          /\ Range(frame') \subseteq Range(frame)
          /\ \A i \in DOMAIN frame :
               LET rows == WithIdentifier(frame, frame[i])
                   left == WithIdentifier(frame', frame[i])
               IN /\ \A k \in left : \E j \in rows : frame'[k] = frame[j]
                  /\ IF Cardinality({Key(frame[j], tag_column_names) : j \in rows}) > 1
                     THEN /\ resolution' \in {"f", "l", "s"}
                          /\ Cardinality(left) = (IF resolution' = "s" THEN 0 ELSE 1)
                     ELSE Cardinality(left) = 1
     /\ pc' = "connect" => OneRowPerIdentifier(frame')
    ]_vars

\* The operator chose 'skip' on a file where one identifier came with
\* differing tags and another with one row: the frame handed to upload_tags
\* holds the latter's row only.
C22_Witness ==
  /\ pc = "connect"
  /\ resolution = "s"
  /\ Len(Normalized) = 3
  /\ Len(frame) = 1

\* C23: interactive, once the operator has answered anything but 'y' at the
\* confirmation prompt, apply_tags has returned 0 and nothing but the count
\* before the prompt has been run: no staging table exists, the restore table
\* and the target are as they were; and upload_tags is entered only when the
\* call is not interactive or the operator has answered 'y'.
C23_DeclinedConfirmationAppliesNothing ==
  /\ Failed("confirm") =>
       /\ pc = "done"
       /\ result = 0
       /\ ~raised
       /\ log = <<[call |-> "count_tags", ok |-> TRUE], [call |-> "confirm", ok |-> FALSE]>>
       /\ ~connected
       /\ staging = NoTable
       /\ restore = restoreBefore
       /\ target = before
  /\ (pc = "connect" \/ Positions("connect") # {}) =>
       (~args.interactive \/ Ran("confirm"))
  /\ (args.interactive /\ pc = "done" /\ result > 0) => Ran("confirm")

\* The operator has declined to replace the tags of a target that has rows.
C23_Witness ==
  /\ Failed("confirm")
  /\ args.interactive
  /\ args.should_drop
  /\ frame # <<>>
  /\ before # <<>>
  /\ pc = "done"

====
